---- MODULE Spec2Model ----
(***************************************************************************)
(* The snake engine of src/snake/game.py (_Snake, SnakeGame) with the      *)
(* food placement of the earlier engine in src/snake/snake.py as the       *)
(* materialised reference.                                                 *)
(*                                                                         *)
(* The specifications share the variables:                                 *)
(*   SnakeSpec     a bare _Snake() object driven through its own methods;  *)
(*   SpecNew       SnakeGame.__init__ from its arguments to its outcome;   *)
(*   Spec          the methods of a SnakeGame object (queue, run,          *)
(*                 stepwise);                                              *)
(*   PairSpec      two such objects, one driven by run_stepwise() and one  *)
(*                 by run();                                               *)
(*   ScenarioSpec  such an object on two fixed boards, no direction sent;  *)
(*   KeySpec       such an object on one board, with no limit on the       *)
(*                 enqueues;                                               *)
(*   ArgsSpec      the wall arguments of the command line, as main() reads *)
(*                 them;                                                   *)
(*   ThreadSpec    such an object shared by a thread inside run() and an   *)
(*                 input thread, with no lock;                             *)
(*   IOSpec        GameIO of game_io.py: the main thread and the input     *)
(*                 thread (FairIOSpec: both threads scheduled);            *)
(*   LegacySpec    the driver of snake.py: game thread, IO thread and      *)
(*                 input thread.                                           *)
(* Positions and velocities are pairs <<x, y>>; a body is a sequence with  *)
(* the tail first and the head last, as the deque of the source.           *)
(***************************************************************************)
EXTENDS Integers, Sequences, FiniteSets, TLC

VARIABLES
    board_size,      \* SnakeGame._board_size
    walls,           \* SnakeGame._walls
    apple,           \* SnakeGame._apple
    body,            \* _Snake._body
    velocity,        \* _Snake._velocity
    velocity_queue,  \* _Snake._velocity_queue
    pc,              \* where the caller of the object is
    gen,             \* the run_stepwise generator object, if any
    step_number,     \* local step_number of that generator
    keys,            \* number of directions the driver has sent so far
    made,            \* what that generator has done: items produced, ticks taken
    twin,            \* a second engine object, driven by run() (PairSpec)
    args,            \* args.walls of the command line (ArgsSpec)
    io,              \* the threads around the engine, their lock and flags
    last             \* the last operation completed, its inputs and its result

vars == <<board_size, walls, apple, body, velocity, velocity_queue,
          pc, gen, step_number, keys, made, twin, args, io, last>>

----------------------------------------------------------------------------
(* Bounds of the model. *)

MaxBoardX == 3
MaxBoardY == 2
MaxWalls == 1
MaxKeys == 2
MaxSteps == 3
MaxCoord == 2
MaxLen == 3
MaxQueue == 2
MaxNegative == 2
MaxArgs == 4
MaxArg == 2
MaxPresses == 6

(* Program constant: the capacity of the pending queue. *)
QueueCap == 5

----------------------------------------------------------------------------
(* Values. *)

None == <<>>
Unset == <<0>>

Up == <<0, 1>>
Down == <<0, -1>>
Right == <<1, 0>>
Left == <<-1, 0>>

UnitVelocities == {Up, Down, Right, Left}

DirectionNames == {"up", "down", "right", "left"}

Add(p, v) == <<p[1] + v[1], p[2] + v[2]>>

Range(s) == {s[i] : i \in 1..Len(s)}

HeadOf(b) == b[Len(b)]

SetMin(S) == CHOOSE m \in S : \A n \in S : m <= n

SetMax(S) == CHOOSE m \in S : \A n \in S : m >= n

----------------------------------------------------------------------------
(* _Snake *)

Snake(b, v, q) == [body |-> b, velocity |-> v, velocity_queue |-> q]

Snake_init == Snake(<<<<0, 0>>>>, Right, <<>>)

is_valid_velocity_any_unit(new_velocity, current) ==
    new_velocity \in {Up, Down, Right, Left}

is_valid_velocity_not_opposite(new_velocity, current) ==
    {new_velocity, current} \notin {{Up, Down}, {Right, Left}}

is_valid_velocity(new_velocity, current) ==
    LET invalid == {{Up, Down}, {Right, Left}}
        valid == {Up, Down, Right, Left}
        velocities == {new_velocity, current}
    IN  velocities \notin invalid /\ new_velocity \in valid

resolve_velocity(s) ==
    IF s.velocity_queue # <<>>
    THEN LET new_velocity == s.velocity_queue[1]
         IN  IF is_valid_velocity(new_velocity, s.velocity)
             THEN new_velocity
             ELSE s.velocity
    ELSE s.velocity

take_step_keeps_tail(s) ==
    LET v == resolve_velocity(s)
        q == IF s.velocity_queue # <<>> THEN Tail(s.velocity_queue)
                                        ELSE s.velocity_queue
    IN  Snake(Append(s.body, Add(HeadOf(s.body), v)), v, q)

take_step_pops_newest(s) ==
    LET n == Len(s.velocity_queue)
        v == IF n > 0 /\ is_valid_velocity(s.velocity_queue[n], s.velocity)
             THEN s.velocity_queue[n]
             ELSE s.velocity
        q == IF n > 0 THEN SubSeq(s.velocity_queue, 1, n - 1)
                      ELSE s.velocity_queue
    IN  Snake(Tail(Append(s.body, Add(HeadOf(s.body), v))), v, q)

take_step(s) ==
    LET v == resolve_velocity(s)
        q == IF s.velocity_queue # <<>> THEN Tail(s.velocity_queue)
                                        ELSE s.velocity_queue
        new_head == Add(HeadOf(s.body), v)
    IN  Snake(Tail(Append(s.body, new_head)), v, q)

hit(b, ws) == \E i \in 1..Len(b) : b[i] \in ws

bite(b) == Cardinality(Range(b)) # Len(b)

is_escaped_at_edge(b, bs) ==
    \/ SetMin({b[i][1] : i \in 1..Len(b)}) < 0
    \/ SetMin({b[i][2] : i \in 1..Len(b)}) < 0
    \/ SetMax({b[i][1] : i \in 1..Len(b)}) >= bs[1] - 1
    \/ SetMax({b[i][2] : i \in 1..Len(b)}) >= bs[2] - 1

is_escaped_beyond_edge(b, bs) ==
    \/ SetMin({b[i][1] : i \in 1..Len(b)}) < 0
    \/ SetMin({b[i][2] : i \in 1..Len(b)}) < 0
    \/ SetMax({b[i][1] : i \in 1..Len(b)}) > bs[1]
    \/ SetMax({b[i][2] : i \in 1..Len(b)}) > bs[2]

is_escaped(b, bs) ==
    LET min_x == SetMin({b[i][1] : i \in 1..Len(b)})
        max_x == SetMax({b[i][1] : i \in 1..Len(b)})
        min_y == SetMin({b[i][2] : i \in 1..Len(b)})
        max_y == SetMax({b[i][2] : i \in 1..Len(b)})
    IN  \/ min_x < 0
        \/ min_y < 0
        \/ max_x >= bs[1]
        \/ max_y >= bs[2]

(* Snake.escape of the earlier engine. *)
escape(b, bs) ==
    LET min_x == SetMin({b[i][1] : i \in 1..Len(b)})
        max_x == SetMax({b[i][1] : i \in 1..Len(b)})
        min_y == SetMin({b[i][2] : i \in 1..Len(b)})
        max_y == SetMax({b[i][2] : i \in 1..Len(b)})
        board_x == bs[1]
        board_y == bs[2]
    IN  \/ min_x < 0
        \/ min_y < 0
        \/ max_x >= board_x
        \/ max_y >= board_y

eat_without_growing(s, food) ==
    LET head == HeadOf(s.body)
        ate == head = food
    IN  [ate |-> ate,
         snake |-> IF ate
                   THEN Snake(Tail(Append(s.body, Add(head, s.velocity))),
                              s.velocity, s.velocity_queue)
                   ELSE s]

eat(s, food) ==
    LET head == HeadOf(s.body)
        ate == head = food
    IN  [ate |-> ate,
         snake |-> IF ate
                   THEN Snake(Append(s.body, Add(head, s.velocity)),
                              s.velocity, s.velocity_queue)
                   ELSE s]

(* A queue_velocity that puts the new velocity in front (appendleft). *)
queue_velocity_in_front(s, v) ==
    Snake(s.body, s.velocity, <<v>> \o s.velocity_queue)

queue_velocity(s, v) ==
    Snake(s.body, s.velocity, Append(s.velocity_queue, v))

get_num_queued_velocities(s) == Len(s.velocity_queue)

----------------------------------------------------------------------------
(* History record of the last completed operation. *)

Cur == Snake(body, velocity, velocity_queue)

NoOp == [op |-> "none", vel |-> None, pos |-> None, ret |-> "None",
         exc |-> "none", item |-> 0, pre |-> Snake_init, mid |-> Snake_init,
         pre_apple |-> None, ended |-> FALSE, placed |-> FALSE]

Did(op, vel, pos, ret, exc, item, mid, ended, placed) ==
    [op |-> op, vel |-> vel, pos |-> pos, ret |-> ret, exc |-> exc,
     item |-> item, pre |-> Cur, mid |-> mid, pre_apple |-> apple,
     ended |-> ended, placed |-> placed]

(* Nothing produced yet by a generator, and no second engine. *)
NothingMade == [items |-> 0, ticks |-> 0]

NoTwin == [pc |-> "none"]

(* No thread has been started around the engine. *)
NoIO == [main |-> "none"]

SetSnake(s) ==
    /\ body' = s.body
    /\ velocity' = s.velocity
    /\ velocity_queue' = s.velocity_queue

----------------------------------------------------------------------------
(* SnakeSpec: a _Snake() object and direct calls of its methods. *)

(* Velocities a caller may hand to _Snake.queue_velocity, which checks      *)
(* nothing: the four unit vectors and one tuple that is no unit vector.    *)
SnakeInputs == UnitVelocities \cup {<<0, 0>>}

Coords == (-MaxCoord)..MaxCoord

InBox(p) == p[1] \in Coords /\ p[2] \in Coords

SnakeInit ==
    /\ board_size = <<0, 0>>
    /\ walls = {}
    /\ apple = Unset
    /\ body = Snake_init.body
    /\ velocity = Snake_init.velocity
    /\ velocity_queue = Snake_init.velocity_queue
    /\ pc = "snake"
    /\ gen = "none"
    /\ step_number = 0
    /\ keys = 0
    /\ made = NothingMade
    /\ twin = NoTwin
    /\ args = <<>>
    /\ io = NoIO
    /\ last = NoOp

EngineUnchanged ==
    UNCHANGED <<board_size, walls, apple, pc, gen, step_number, keys, made, twin,
                args, io>>

SnakeTakeStep ==
    /\ pc = "snake"
    /\ InBox(HeadOf(take_step(Cur).body))
    /\ SetSnake(take_step(Cur))
    /\ last' = Did("take_step", None, None, "None", "none", 0, take_step(Cur),
                   FALSE, FALSE)
    /\ EngineUnchanged

SnakeEat ==
    /\ pc = "snake"
    /\ \E p \in {HeadOf(body), Add(HeadOf(body), <<1, 1>>), Add(HeadOf(body), velocity)} :
          LET r == eat(Cur, p)
          IN  /\ InBox(HeadOf(r.snake.body))
              /\ Len(r.snake.body) <= MaxLen
              /\ SetSnake(r.snake)
              /\ last' = Did("eat", None, p, IF r.ate THEN "True" ELSE "False",
                             "none", 0, Cur, FALSE, FALSE)
    /\ EngineUnchanged

SnakeQueueVelocity ==
    /\ pc = "snake"
    /\ Len(velocity_queue) < MaxQueue
    /\ \E v \in SnakeInputs :
          /\ SetSnake(queue_velocity(Cur, v))
          /\ last' = Did("queue_velocity", v, None, "None", "none", 0, Cur,
                         FALSE, FALSE)
    /\ EngineUnchanged

SnakeNext == SnakeTakeStep \/ SnakeEat \/ SnakeQueueVelocity

SnakeSpec == SnakeInit /\ [][SnakeNext]_vars

----------------------------------------------------------------------------
(* Food placement. *)

Returned(value) == [exc |-> "none", value |-> value]

Raised(exc) == [exc |-> exc, value |-> None]

(* it.product(range(0, board_x), range(0, board_y)) as a sequence: x is    *)
(* the slow coordinate, y the fast one; a non-positive range is empty.     *)
board_positions(bs) ==
    IF bs[1] <= 0 \/ bs[2] <= 0
    THEN <<>>
    ELSE [k \in 1..(bs[1] * bs[2]) |-> <<(k - 1) \div bs[2], (k - 1) % bs[2]>>]

(* The k-th element of s that satisfies keep, counted from 0, or None     *)
(* when the loop runs off the end of s, as a Python function without a    *)
(* return statement does.                                                  *)
nth_kept(s, kept, index) ==
    LET at == {k \in kept : Cardinality({j \in kept : j < k}) = index}
    IN  IF at = {} THEN None ELSE s[CHOOSE k \in at : TRUE]

(* snake_body = self._snake.get_body() is a generator (get_body is a      *)
(* generator function), and a generator has no len().                     *)
snake_body_is_sized == TRUE

snake_body_has_len == FALSE

(* The filter of valid_positions: set(snake_body) drains the generator    *)
(* for the first candidate and is the empty set for every later one.      *)
valid_positions_kept(bd, ws, bs) ==
    LET positions == board_positions(bs)
    IN  {k \in 1..Len(positions) :
            /\ positions[k] \notin (IF k = 1 THEN Range(bd) ELSE {})
            /\ positions[k] \notin ws}

(* SnakeGame._get_new_apple: the set of its outcomes, one for each index  *)
(* that randint can draw.                                                  *)
get_new_apple(bd, ws, bs) ==
    IF ~snake_body_has_len
    THEN {Raised("TypeError")}
    ELSE LET max_index == bs[1] * bs[2] - Cardinality(ws) - Len(bd) - 1
         IN  IF max_index < 0
             THEN {Raised("ValueError")}
             ELSE {Returned(nth_kept(board_positions(bs),
                                     valid_positions_kept(bd, ws, bs), index)) :
                      index \in 0..max_index}

(* The materialised list of snake.py: every board position that is in     *)
(* neither the walls nor the body, in the order of board_positions.       *)
valid_positions(bd, ws, bs) ==
    LET invalid_positions == ws \cup Range(bd)
        Valid(pos) == pos \notin invalid_positions
    IN  SelectSeq(board_positions(bs), Valid)

(* snake.py SnakeGame.generate_new_apple: random.choice of that list.     *)
generate_new_apple(bd, ws, bs) ==
    IF valid_positions(bd, ws, bs) = <<>>
    THEN {Raised("IndexError")}
    ELSE {Returned(pos) : pos \in Range(valid_positions(bd, ws, bs))}

----------------------------------------------------------------------------
(* SpecNew: SnakeGame(board_size, walls, random_seed). *)

(* Cells a caller may wall off, (0, 0) under the new snake included. *)
WallCells == {<<0, 0>>, <<1, 0>>, <<0, 1>>, <<1, 1>>}

WallSets == {ws \in SUBSET WallCells : Cardinality(ws) <= MaxWalls}

(* Board sizes a caller may pass: nothing in __init__ checks their sign.  *)
NewBoardSizes == ((-MaxNegative)..MaxBoardX) \X ((-MaxNegative)..MaxBoardY)

NewInit ==
    /\ board_size \in NewBoardSizes
    /\ walls \in WallSets
    /\ apple = Unset
    /\ body = Snake_init.body
    /\ velocity = Snake_init.velocity
    /\ velocity_queue = Snake_init.velocity_queue
    /\ pc = "new"
    /\ gen = "none"
    /\ step_number = 0
    /\ keys = 0
    /\ made = NothingMade
    /\ twin = NoTwin
    /\ args = <<>>
    /\ io = NoIO
    /\ last = NoOp

(* Line 327 of __init__: self._apple = self._get_new_apple(). *)
SnakeGame_init ==
    /\ pc = "new"
    /\ \E r \in get_new_apple(body, walls, board_size) :
          /\ apple' = IF r.exc = "none" THEN r.value ELSE apple
          /\ pc' = IF r.exc = "none" THEN "idle" ELSE "raised"
          /\ last' = Did("__init__", None, r.value, "None", r.exc, 0, Cur,
                         FALSE, r.exc = "none")
    /\ UNCHANGED <<board_size, walls, body, velocity, velocity_queue,
                   gen, step_number, keys, made, twin, args, io>>

NewNext == SnakeGame_init

SpecNew == NewInit /\ [][NewNext]_vars

----------------------------------------------------------------------------
(* SnakeGame: the tick. *)

(* The condition of the while loops of run and run_stepwise. *)
loop_condition_without_escape(b, ws, bs) ==
    /\ ~hit(b, ws)
    /\ ~bite(b)

loop_condition_without_hit(b, ws, bs) ==
    /\ ~bite(b)
    /\ ~is_escaped(b, bs)

loop_condition(b, ws, bs) ==
    /\ ~hit(b, ws)
    /\ ~bite(b)
    /\ ~is_escaped(b, bs)

(* Line 377 calls self._generate_new_apple, a name SnakeGame does not     *)
(* define (the method is _get_new_apple): the attribute lookup raises.    *)
SnakeGame_generate_new_apple(bd, ws, bs) == {Raised("AttributeError")}

(* SnakeGame._take_step: the outcomes of one step. mid is the snake       *)
(* between take_step and eat.                                              *)
SnakeGame_take_step_without_eat(s, food, ws, bs) ==
    {[snake |-> take_step(s), mid |-> take_step(s), ate |-> FALSE,
      exc |-> "none", placed |-> FALSE, apple |-> food]}

SnakeGame_take_step(s, food, ws, bs) ==
    LET mid == take_step(s)
        r == eat(mid, food)
    IN  IF r.ate
        THEN {[snake |-> r.snake, mid |-> mid, ate |-> TRUE, exc |-> g.exc,
               placed |-> g.exc = "none",
               apple |-> IF g.exc = "none" THEN g.value ELSE food] :
                 g \in SnakeGame_generate_new_apple(r.snake.body, ws, bs)}
        ELSE {[snake |-> r.snake, mid |-> mid, ate |-> FALSE, exc |-> "none",
               placed |-> FALSE, apple |-> food]}

(* SnakeGame.queue_snake_movement_direction *)
queue_snake_movement_direction_one_more(s, direction) ==
    LET v == CASE direction = "up" -> Up
               [] direction = "down" -> Down
               [] direction = "right" -> Right
               [] direction = "left" -> Left
    IN  IF get_num_queued_velocities(s) <= QueueCap
        THEN [ret |-> "True", snake |-> queue_velocity(s, v), vel |-> v]
        ELSE [ret |-> "False", snake |-> s, vel |-> v]

queue_snake_movement_direction_sets_velocity(s, direction) ==
    LET v == CASE direction = "up" -> Up
               [] direction = "down" -> Down
               [] direction = "right" -> Right
               [] direction = "left" -> Left
    IN  IF get_num_queued_velocities(s) < QueueCap
        THEN [ret |-> "True",
              snake |-> Snake(s.body, v, Append(s.velocity_queue, v)),
              vel |-> v]
        ELSE [ret |-> "False", snake |-> s, vel |-> v]

queue_snake_movement_direction(s, direction) ==
    LET v == CASE direction = "up" -> Up
               [] direction = "down" -> Down
               [] direction = "right" -> Right
               [] direction = "left" -> Left
    IN  IF get_num_queued_velocities(s) < QueueCap
        THEN [ret |-> "True", snake |-> queue_velocity(s, v), vel |-> v]
        ELSE [ret |-> "False", snake |-> s, vel |-> v]

----------------------------------------------------------------------------
(* Spec: a SnakeGame object and calls of its methods.                      *)
(*                                                                         *)
(* SnakeGame.__init__ raises on every input (SpecNew), so no caller gets   *)
(* an engine from it. The methods are therefore checked from every object  *)
(* in which the attributes hold what lines 323-326 of __init__ assign and  *)
(* _apple is any cell of the board: a superset of whatever a food          *)
(* placement that returns could have stored.                               *)

BoardSizes == (1..MaxBoardX) \X (1..MaxBoardY)

BoardCells(bs) == (0..(bs[1] - 1)) \X (0..(bs[2] - 1))

Init ==
    /\ board_size \in BoardSizes
    /\ walls \in WallSets
    /\ apple \in BoardCells(board_size)
    /\ body = Snake_init.body
    /\ velocity = Snake_init.velocity
    /\ velocity_queue = Snake_init.velocity_queue
    /\ pc = "idle"
    /\ gen = "none"
    /\ step_number = 0
    /\ keys = 0
    /\ made = NothingMade
    /\ twin = NoTwin
    /\ args = <<>>
    /\ io = NoIO
    /\ last = NoOp

Queue(direction) ==
    LET r == queue_snake_movement_direction(Cur, direction)
    IN  /\ SetSnake(r.snake)
        /\ last' = Did("queue", r.vel, None, r.ret, "none", 0, Cur, FALSE, FALSE)
        /\ UNCHANGED <<board_size, walls, apple, pc, gen, step_number, made,
                       args, io>>

QueueDirection ==
    /\ pc = "idle"
    /\ keys < MaxKeys
    /\ \E direction \in DirectionNames : Queue(direction)
    /\ keys' = keys + 1
    /\ UNCHANGED twin

(* One pass through the while loop of run(): the condition, then          *)
(* _take_step. The caller is inside run() from its call (pc = "idle")     *)
(* until the condition fails or _take_step raises.                        *)
Run ==
    /\ pc \in {"idle", "run"}
    /\ IF loop_condition(body, walls, board_size)
       THEN \E t \in SnakeGame_take_step(Cur, apple, walls, board_size) :
               /\ SetSnake(t.snake)
               /\ apple' = t.apple
               /\ pc' = IF t.exc = "none" THEN "run" ELSE "idle"
               /\ last' = Did("run", None, None, "None", t.exc, 0, t.mid,
                              FALSE, t.placed)
       ELSE /\ pc' = "idle"
            /\ last' = Did("run", None, None, "None", "none", 0, Cur,
                           TRUE, FALSE)
            /\ UNCHANGED <<apple, body, velocity, velocity_queue>>
    /\ UNCHANGED <<board_size, walls, gen, step_number, keys, made, twin,
                   args, io>>

(* Calling run_stepwise() makes a generator; none of its body has run. *)
RunStepwise ==
    /\ pc = "idle"
    /\ gen # "suspended"
    /\ gen' = "suspended"
    /\ step_number' = 0
    /\ made' = NothingMade
    /\ last' = Did("run_stepwise", None, None, "generator", "none", 0, Cur,
                   FALSE, FALSE)
    /\ UNCHANGED <<board_size, walls, apple, body, velocity, velocity_queue,
                   pc, keys, twin, args, io>>

(* next() on the generator: from its start or its last yield to the next  *)
(* yield, to the end of the loop (StopIteration) or to an exception.      *)
Next_item ==
    /\ pc = "idle"
    /\ gen = "suspended"
    /\ step_number < MaxSteps
    /\ IF loop_condition(body, walls, board_size)
       THEN \E t \in SnakeGame_take_step(Cur, apple, walls, board_size) :
               /\ SetSnake(t.snake)
               /\ apple' = t.apple
               /\ gen' = IF t.exc = "none" THEN "suspended" ELSE "finished"
               /\ step_number' = IF t.exc = "none" THEN step_number + 1
                                                   ELSE step_number
               /\ made' = [items |-> IF t.exc = "none" THEN made.items + 1
                                                        ELSE made.items,
                           ticks |-> made.ticks + 1]
               /\ last' = Did("next", None, None,
                              IF t.exc = "none" THEN "item" ELSE "None",
                              t.exc,
                              IF t.exc = "none" THEN step_number + 1 ELSE 0,
                              t.mid, FALSE, t.placed)
       ELSE /\ gen' = "finished"
            /\ last' = Did("next", None, None, "StopIteration", "none", 0, Cur,
                           TRUE, FALSE)
            /\ UNCHANGED <<apple, body, velocity, velocity_queue, step_number,
                           made>>
    /\ UNCHANGED <<board_size, walls, pc, keys, twin, args, io>>

Next == QueueDirection \/ Run \/ RunStepwise \/ Next_item

Spec == Init /\ [][Next]_vars

----------------------------------------------------------------------------
(* PairSpec: two SnakeGame objects in the same state, the first driven by *)
(* next() on its run_stepwise() generator and the second by run(). A      *)
(* direction is sent to both objects, and only when both have taken the   *)
(* same number of ticks.                                                   *)

Twin(p, s, food, n) == [pc |-> p, snake |-> s, apple |-> food, ticks |-> n]

PairInit ==
    /\ board_size \in BoardSizes
    /\ walls \in WallSets
    /\ apple \in BoardCells(board_size)
    /\ body = Snake_init.body
    /\ velocity = Snake_init.velocity
    /\ velocity_queue = Snake_init.velocity_queue
    /\ pc = "idle"
    /\ gen = "none"
    /\ step_number = 0
    /\ keys = 0
    /\ made = NothingMade
    /\ twin = Twin("idle", Snake_init, apple, 0)
    /\ args = <<>>
    /\ io = NoIO
    /\ last = NoOp

PairQueue ==
    /\ pc = "idle"
    /\ gen # "finished"
    /\ twin.pc \in {"idle", "run"}
    /\ made.ticks = twin.ticks
    /\ keys < MaxKeys
    /\ \E direction \in DirectionNames :
          /\ Queue(direction)
          /\ twin' = [twin EXCEPT !.snake =
                         queue_snake_movement_direction(twin.snake, direction).snake]
    /\ keys' = keys + 1

PairRunStepwise ==
    /\ gen = "none"
    /\ RunStepwise

(* One pass through the while loop of run() on the second object, but    *)
(* with the first pass taking its step before any test of the condition.  *)
TwinRun_step_first ==
    /\ twin.pc \in {"idle", "run"}
    /\ IF twin.pc = "idle" \/ loop_condition(twin.snake.body, walls, board_size)
       THEN \E t \in SnakeGame_take_step(twin.snake, twin.apple, walls, board_size) :
               twin' = Twin(IF t.exc = "none" THEN "run" ELSE "raised",
                            t.snake, t.apple, twin.ticks + 1)
       ELSE twin' = [twin EXCEPT !.pc = "returned"]
    /\ UNCHANGED <<board_size, walls, apple, body, velocity, velocity_queue,
                   pc, gen, step_number, keys, made, args, io, last>>

(* One pass through the while loop of run() on the second object: the    *)
(* condition, then _take_step; run() returns when the condition fails and *)
(* is left by the exception when _take_step raises.                       *)
TwinRun ==
    /\ twin.pc \in {"idle", "run"}
    /\ IF loop_condition(twin.snake.body, walls, board_size)
       THEN \E t \in SnakeGame_take_step(twin.snake, twin.apple, walls, board_size) :
               twin' = Twin(IF t.exc = "none" THEN "run" ELSE "raised",
                            t.snake, t.apple, twin.ticks + 1)
       ELSE twin' = [twin EXCEPT !.pc = "returned"]
    /\ UNCHANGED <<board_size, walls, apple, body, velocity, velocity_queue,
                   pc, gen, step_number, keys, made, args, io, last>>

PairNext == PairQueue \/ PairRunStepwise \/ Next_item \/ TwinRun

PairSpec == PairInit /\ [][PairNext]_vars

----------------------------------------------------------------------------
(* ScenarioSpec: a SnakeGame object on a 5 x 5 board without walls or on  *)
(* a 3 x 3 board with one wall at (1, 0), the food on any cell that       *)
(* _get_new_apple does not filter out, and a driver that sends no         *)
(* direction.                                                              *)

ScenarioBoards == {<<<<5, 5>>, {}>>, <<<<3, 3>>, {<<1, 0>>}>>}

ScenarioInit ==
    /\ \E sc \in ScenarioBoards :
          /\ board_size = sc[1]
          /\ walls = sc[2]
    /\ apple \in BoardCells(board_size) \ (walls \cup Range(Snake_init.body))
    /\ body = Snake_init.body
    /\ velocity = Snake_init.velocity
    /\ velocity_queue = Snake_init.velocity_queue
    /\ pc = "idle"
    /\ gen = "none"
    /\ step_number = 0
    /\ keys = 0
    /\ made = NothingMade
    /\ twin = NoTwin
    /\ args = <<>>
    /\ io = NoIO
    /\ last = NoOp

ScenarioNext == Run \/ RunStepwise \/ Next_item

ScenarioSpec == ScenarioInit /\ [][ScenarioNext]_vars

----------------------------------------------------------------------------
(* ArgsSpec: the entry point main() from the parsed command line to the    *)
(* wall set it hands to SnakeGame.                                         *)

(* The loop of main(): for i in range(0, len(args.walls)//2, 2), add      *)
(* (args.walls[i], args.walls[i+1]). Python indexes from 0, a sequence    *)
(* here from 1.                                                            *)
main_walls(a) ==
    LET indices == {i \in 0..((Len(a) \div 2) - 1) : i % 2 = 0}
    IN  {<<a[i + 1], a[i + 2]>> : i \in indices}

ArgLists == UNION {[1..n -> 0..MaxArg] : n \in 0..MaxArgs}

ArgsInit ==
    /\ board_size = <<0, 0>>
    /\ walls = {}
    /\ apple = Unset
    /\ body = Snake_init.body
    /\ velocity = Snake_init.velocity
    /\ velocity_queue = Snake_init.velocity_queue
    /\ pc = "args"
    /\ gen = "none"
    /\ step_number = 0
    /\ keys = 0
    /\ made = NothingMade
    /\ twin = NoTwin
    /\ args \in ArgLists
    /\ io = NoIO
    /\ last = NoOp

Main ==
    /\ pc = "args"
    /\ walls' = main_walls(args)
    /\ pc' = "walls"
    /\ last' = Did("main", None, None, "None", "none", 0, Cur, FALSE, FALSE)
    /\ UNCHANGED <<board_size, apple, body, velocity, velocity_queue, gen,
                   step_number, keys, made, twin, args, io>>

ArgsNext == Main

ArgsSpec == ArgsInit /\ [][ArgsNext]_vars

(* The keys of a driver that sends any number of directions: one that    *)
(* turns the new snake and one that reverses it.                           *)
KeyNames == {"up", "left"}

----------------------------------------------------------------------------
(* ThreadSpec: a SnakeGame object shared by two threads with no lock: a    *)
(* simulation thread inside run() and an input thread that calls           *)
(* queue_snake_movement_direction. Each thread moves by the single         *)
(* operations on the shared deque _velocity_queue: the truth test and the  *)
(* popleft of take_step, the len() and the append of the enqueue. The body *)
(* and the velocity are touched by the simulation thread only.             *)
(* io.sent and io.taken record the directions whose enqueue returned True  *)
(* and the directions take_step removed.                                   *)

Threads(m, i) ==
    [main |-> m, input |-> i, key |-> "none", seen |-> FALSE,
     sent |-> <<>>, taken |-> <<>>, lock |-> "free", capturing |-> Unset]

ThreadInit ==
    /\ board_size = <<MaxBoardX, MaxBoardY>>
    /\ walls = {}
    /\ apple \in BoardCells(board_size)
    /\ body = Snake_init.body
    /\ velocity = Snake_init.velocity
    /\ velocity_queue = Snake_init.velocity_queue
    /\ pc = "threads"
    /\ gen = "none"
    /\ step_number = 0
    /\ keys = 0
    /\ made = NothingMade
    /\ twin = NoTwin
    /\ args = <<>>
    /\ io = Threads("cond", "while")
    /\ last = NoOp

ThreadFrame ==
    UNCHANGED <<board_size, walls, pc, gen, step_number, made, twin, args, last>>

(* run(): the condition of the while loop. *)
SimCondition ==
    /\ pc = "threads"
    /\ io.main = "cond"
    /\ io' = [io EXCEPT !.main = IF loop_condition(body, walls, board_size)
                                 THEN "ts_if" ELSE "returned"]
    /\ UNCHANGED <<apple, body, velocity, velocity_queue, keys>>
    /\ ThreadFrame

(* take_step: if self._velocity_queue. *)
SimTakeStepIf ==
    /\ pc \in {"threads", "io"}
    /\ io.main = "ts_if"
    /\ io' = [io EXCEPT !.main = IF velocity_queue # <<>> THEN "ts_pop"
                                                          ELSE "ts_move"]
    /\ UNCHANGED <<apple, body, velocity, velocity_queue, keys>>
    /\ ThreadFrame

(* take_step: popleft, then the new velocity if it is valid. *)
SimTakeStepPop ==
    /\ pc \in {"threads", "io"}
    /\ io.main = "ts_pop"
    /\ LET new_velocity == velocity_queue[1]
       IN  /\ velocity_queue' = Tail(velocity_queue)
           /\ velocity' = IF is_valid_velocity(new_velocity, velocity)
                          THEN new_velocity ELSE velocity
           /\ io' = [io EXCEPT !.main = "ts_move",
                               !.taken = Append(io.taken, new_velocity)]
    /\ UNCHANGED <<apple, body, keys>>
    /\ ThreadFrame

(* take_step: the new head is appended and the tail removed. *)
SimTakeStepMove ==
    /\ pc \in {"threads", "io"}
    /\ io.main = "ts_move"
    /\ body' = Tail(Append(body, Add(HeadOf(body), velocity)))
    /\ io' = [io EXCEPT !.main = "eat"]
    /\ UNCHANGED <<apple, velocity, velocity_queue, keys>>
    /\ ThreadFrame

(* _take_step: eat, and the food placement if it ate. *)
SimEat ==
    /\ pc = "threads"
    /\ io.main = "eat"
    /\ LET r == eat(Cur, apple)
       IN  IF r.ate
           THEN \E g \in SnakeGame_generate_new_apple(r.snake.body, walls, board_size) :
                   /\ body' = r.snake.body
                   /\ apple' = IF g.exc = "none" THEN g.value ELSE apple
                   /\ io' = [io EXCEPT !.main = IF g.exc = "none" THEN "cond"
                                                                  ELSE "raised"]
           ELSE /\ io' = [io EXCEPT !.main = "cond"]
                /\ UNCHANGED <<apple, body>>
    /\ UNCHANGED <<velocity, velocity_queue, keys>>
    /\ ThreadFrame

(* The input thread has a key and calls queue_snake_movement_direction. *)
InputKey ==
    /\ pc = "threads"
    /\ io.input = "while"
    /\ keys < MaxPresses
    /\ \E direction \in KeyNames :
          io' = [io EXCEPT !.input = "q_len", !.key = direction]
    /\ keys' = keys + 1
    /\ UNCHANGED <<apple, body, velocity, velocity_queue>>
    /\ ThreadFrame

(* queue_snake_movement_direction: get_num_queued_velocities() < 5. *)
InputLen ==
    /\ pc \in {"threads", "io"}
    /\ io.input = "q_len"
    /\ io' = [io EXCEPT !.input = "q_append",
                        !.seen = get_num_queued_velocities(Cur) < QueueCap]
    /\ UNCHANGED <<apple, body, velocity, velocity_queue, keys>>
    /\ ThreadFrame

(* queue_snake_movement_direction: queue_velocity and return True, or      *)
(* return False.                                                            *)
InputAppend ==
    /\ pc \in {"threads", "io"}
    /\ io.input = "q_append"
    /\ LET v == queue_snake_movement_direction(Cur, io.key).vel
       IN  IF io.seen
           THEN /\ velocity_queue' = queue_velocity(Cur, v).velocity_queue
                /\ io' = [io EXCEPT !.input = "while", !.key = "none",
                                    !.sent = Append(io.sent, v)]
           ELSE /\ io' = [io EXCEPT !.input = "while", !.key = "none"]
                /\ UNCHANGED velocity_queue
    /\ UNCHANGED <<apple, body, velocity, keys>>
    /\ ThreadFrame

ThreadNext ==
    \/ SimCondition
    \/ SimTakeStepIf
    \/ SimTakeStepPop
    \/ SimTakeStepMove
    \/ SimEat
    \/ InputKey
    \/ InputLen
    \/ InputAppend

ThreadSpec == ThreadInit /\ [][ThreadNext]_vars

----------------------------------------------------------------------------
(* IOSpec: GameIO._run on a SnakeGame object. The main thread starts the   *)
(* input thread, iterates run_stepwise() with a _render() after every      *)
(* item, then runs _cleanup(), joins the input thread and writes the       *)
(* score. The input thread runs _capture_inputs. io.lock is GameIO._lock   *)
(* and io.capturing is GameIO._capturing_inputs, which no constructor      *)
(* assigns. A getch that completes the three bytes of an arrow key is one  *)
(* step that has a direction.                                              *)

IOWalls == {{}, {<<0, 0>>}}

IOInit ==
    /\ board_size = <<MaxBoardX, MaxBoardY>>
    /\ walls \in IOWalls
    /\ apple \in BoardCells(board_size) \ walls
    /\ body = Snake_init.body
    /\ velocity = Snake_init.velocity
    /\ velocity_queue = Snake_init.velocity_queue
    /\ pc = "io"
    /\ gen = "none"
    /\ step_number = 0
    /\ keys = 0
    /\ made = NothingMade
    /\ twin = NoTwin
    /\ args = <<>>
    /\ io = Threads("start", "unstarted")
    /\ last = NoOp

IOFrame ==
    UNCHANGED <<board_size, walls, apple, body, velocity, velocity_queue,
                pc, gen, made, twin, args, last>>

(* _run: input_thread.start(), then the call of run_stepwise(). *)
IOStart ==
    /\ pc = "io"
    /\ io.main = "start"
    /\ io' = [io EXCEPT !.main = "cond", !.input = "init"]
    /\ UNCHANGED <<step_number, keys>>
    /\ IOFrame

(* run_stepwise: the condition of the while loop; the for loop of _run     *)
(* ends when the generator returns.                                        *)
IOCondition ==
    /\ pc = "io"
    /\ io.main = "cond"
    /\ io' = [io EXCEPT !.main = IF loop_condition(body, walls, board_size)
                                 THEN "ts_if" ELSE "cleanup"]
    /\ UNCHANGED <<step_number, keys>>
    /\ IOFrame

(* _take_step: eat, the food placement if it ate, then the yield. *)
IOEat ==
    /\ pc = "io"
    /\ io.main = "eat"
    /\ LET r == eat(Cur, apple)
       IN  IF r.ate
           THEN \E g \in SnakeGame_generate_new_apple(r.snake.body, walls, board_size) :
                   /\ body' = r.snake.body
                   /\ apple' = IF g.exc = "none" THEN g.value ELSE apple
                   /\ io' = [io EXCEPT !.main = IF g.exc = "none" THEN "render"
                                                                  ELSE "raised"]
                   /\ step_number' = IF g.exc = "none" THEN step_number + 1
                                                       ELSE step_number
           ELSE /\ io' = [io EXCEPT !.main = "render"]
                /\ step_number' = step_number + 1
                /\ UNCHANGED <<apple, body>>
    /\ UNCHANGED <<velocity, velocity_queue, keys>>
    /\ UNCHANGED <<board_size, walls, pc, gen, made, twin, args, last>>

(* _render: with self._lock. *)
RenderAcquire ==
    /\ pc = "io"
    /\ io.main = "render"
    /\ io.lock = "free"
    /\ io' = [io EXCEPT !.main = "draw", !.lock = "main"]
    /\ UNCHANGED <<step_number, keys>>
    /\ IOFrame

(* _render: the walls, the snake and the food are drawn, then              *)
(* self._game.get_snake_length() raises AttributeError, which releases the *)
(* lock and leaves _run.                                                   *)
Render ==
    /\ pc = "io"
    /\ io.main = "draw"
    /\ io' = [io EXCEPT !.main = "raised", !.lock = "free"]
    /\ UNCHANGED <<step_number, keys>>
    /\ IOFrame

(* _cleanup. *)
Cleanup ==
    /\ pc = "io"
    /\ io.main = "cleanup"
    /\ io' = [io EXCEPT !.main = "join", !.capturing = FALSE]
    /\ UNCHANGED <<step_number, keys>>
    /\ IOFrame

(* _run: input_thread.join() returns when _capture_inputs has returned. *)
Join ==
    /\ pc = "io"
    /\ io.main = "join"
    /\ io.input = "done"
    /\ io' = [io EXCEPT !.main = "score"]
    /\ UNCHANGED <<step_number, keys>>
    /\ IOFrame

(* _run: score = self._game.get_snake_length() raises AttributeError. *)
Score ==
    /\ pc = "io"
    /\ io.main = "score"
    /\ io' = [io EXCEPT !.main = "raised"]
    /\ UNCHANGED <<step_number, keys>>
    /\ IOFrame

(* _capture_inputs: self._capturing_inputs = True. *)
CaptureInit ==
    /\ pc = "io"
    /\ io.input = "init"
    /\ io' = [io EXCEPT !.input = "while", !.capturing = TRUE]
    /\ UNCHANGED <<step_number, keys>>
    /\ IOFrame

(* _capture_inputs: while self._capturing_inputs. *)
CaptureWhile ==
    /\ pc = "io"
    /\ io.input = "while"
    /\ io' = [io EXCEPT !.input = IF io.capturing = TRUE THEN "acquire"
                                                         ELSE "done"]
    /\ UNCHANGED <<step_number, keys>>
    /\ IOFrame

(* _capture_inputs: with self._lock. *)
CaptureAcquire ==
    /\ pc = "io"
    /\ io.input = "acquire"
    /\ io.lock = "free"
    /\ io' = [io EXCEPT !.input = "getch", !.lock = "input"]
    /\ UNCHANGED <<step_number, keys>>
    /\ IOFrame

(* _capture_inputs: getch without waiting, the release of the lock, and    *)
(* the comparison of the last three bytes with the arrow keys.             *)
CaptureGetch ==
    /\ pc = "io"
    /\ io.input = "getch"
    /\ \/ /\ io' = [io EXCEPT !.input = "while", !.lock = "free"]
          /\ UNCHANGED keys
       \/ /\ keys < MaxKeys
          /\ \E direction \in DirectionNames :
                io' = [io EXCEPT !.input = "q_len", !.lock = "free",
                                 !.key = direction]
          /\ keys' = keys + 1
    /\ UNCHANGED step_number
    /\ IOFrame

MainThread ==
    \/ IOStart
    \/ IOCondition
    \/ SimTakeStepIf
    \/ SimTakeStepPop
    \/ SimTakeStepMove
    \/ IOEat
    \/ RenderAcquire
    \/ Render
    \/ Cleanup
    \/ Join
    \/ Score

InputThread ==
    \/ CaptureInit
    \/ CaptureWhile
    \/ CaptureAcquire
    \/ CaptureGetch
    \/ InputLen
    \/ InputAppend

IONext == MainThread \/ InputThread

IOSpec == IOInit /\ [][IONext]_vars

(* Both threads are scheduled: a thread that can take a step takes one. *)
FairIOSpec == IOSpec /\ WF_vars(MainThread) /\ WF_vars(InputThread)

----------------------------------------------------------------------------
(* LegacySpec: the threaded driver of snake.py. main() constructs the      *)
(* legacy SnakeGame, starts a thread on SnakeGame.run and calls GameIO,    *)
(* whose _run starts the input thread and renders while game.running.      *)
(* io.game is the position of the game thread, io.main that of the thread  *)
(* of main() and GameIO._run, io.input that of _capture_inputs;            *)
(* io.running is SnakeGame.running and io.screen the cells of the snake    *)
(* and of the food that the game window shows. hit, bite and eat of the legacy Snake  *)
(* have the bodies of the _Snake methods modelled above.                   *)

(* Snake._valid_velocity of snake.py. *)
valid_velocity(new_velocity, current) ==
    LET invalid == {{Up, Down}, {Right, Left}}
        velocities == {new_velocity, current}
    IN  velocities \notin invalid

(* The condition of the while loop of the legacy SnakeGame.run. *)
legacy_loop_condition(b, ws, bs) ==
    /\ ~hit(b, ws)
    /\ ~bite(b)
    /\ ~escape(b, bs)

LegacyThreads ==
    [main |-> "start_game", game |-> "unstarted", input |-> "unstarted",
     running |-> FALSE, lock |-> "free", capturing |-> Unset, key |-> None,
     screen |-> None]

LegacyInit ==
    /\ board_size = <<MaxBoardX, MaxBoardY>>
    /\ walls \in IOWalls
    /\ body = Snake_init.body
    /\ velocity = Snake_init.velocity
    /\ velocity_queue = Snake_init.velocity_queue
    /\ \E g \in generate_new_apple(body, walls, board_size) :
          g.exc = "none" /\ apple = g.value
    /\ pc = "legacy"
    /\ gen = "none"
    /\ step_number = 0
    /\ keys = 0
    /\ made = NothingMade
    /\ twin = NoTwin
    /\ args = <<>>
    /\ io = LegacyThreads
    /\ last = NoOp

LegacyFrame ==
    UNCHANGED <<board_size, walls, pc, gen, step_number, made, twin, args, last>>

EngineFieldsUnchanged == UNCHANGED <<apple, body, velocity, velocity_queue>>

(* main: game_thread.start(). *)
StartGame ==
    /\ pc = "legacy"
    /\ io.main = "start_game"
    /\ io' = [io EXCEPT !.main = "start_input", !.game = "run"]
    /\ UNCHANGED keys
    /\ EngineFieldsUnchanged
    /\ LegacyFrame

(* GameIO._run: input_thread.start(). *)
StartInput ==
    /\ pc = "legacy"
    /\ io.main = "start_input"
    /\ io' = [io EXCEPT !.main = "while", !.input = "init"]
    /\ UNCHANGED keys
    /\ EngineFieldsUnchanged
    /\ LegacyFrame

(* GameIO._run: while self._game.running. *)
ViewWhile ==
    /\ pc = "legacy"
    /\ io.main = "while"
    /\ io' = [io EXCEPT !.main = IF io.running THEN "view" ELSE "end"]
    /\ UNCHANGED keys
    /\ EngineFieldsUnchanged
    /\ LegacyFrame

(* GameIO._view: with self._lock. *)
ViewAcquire ==
    /\ pc = "legacy"
    /\ io.main = "view"
    /\ io.lock = "free"
    /\ io' = [io EXCEPT !.main = "draw", !.lock = "main"]
    /\ UNCHANGED keys
    /\ EngineFieldsUnchanged
    /\ LegacyFrame

(* GameIO._view: the drawing, the release of the lock, the sleep. *)
View ==
    /\ pc = "legacy"
    /\ io.main = "draw"
    /\ io' = [io EXCEPT !.main = "while", !.lock = "free",
                        !.screen = <<Range(body), apple>>]
    /\ UNCHANGED keys
    /\ EngineFieldsUnchanged
    /\ LegacyFrame

(* GameIO._end. *)
End ==
    /\ pc = "legacy"
    /\ io.main = "end"
    /\ io' = [io EXCEPT !.main = "join_input", !.capturing = FALSE]
    /\ UNCHANGED keys
    /\ EngineFieldsUnchanged
    /\ LegacyFrame

(* GameIO._run: input_thread.join(). *)
JoinInput ==
    /\ pc = "legacy"
    /\ io.main = "join_input"
    /\ io.input = "done"
    /\ io' = [io EXCEPT !.main = "join_game"]
    /\ UNCHANGED keys
    /\ EngineFieldsUnchanged
    /\ LegacyFrame

(* main: game_thread.join(). *)
JoinGame ==
    /\ pc = "legacy"
    /\ io.main = "join_game"
    /\ io.game \in {"done", "raised"}
    /\ io' = [io EXCEPT !.main = "returned"]
    /\ UNCHANGED keys
    /\ EngineFieldsUnchanged
    /\ LegacyFrame

(* SnakeGame.run: self.running = True. *)
GameRun ==
    /\ pc = "legacy"
    /\ io.game = "run"
    /\ io' = [io EXCEPT !.game = "cond", !.running = TRUE]
    /\ UNCHANGED keys
    /\ EngineFieldsUnchanged
    /\ LegacyFrame

(* SnakeGame.run: the condition of the while loop, then the sleep. *)
GameCondition ==
    /\ pc = "legacy"
    /\ io.game = "cond"
    /\ io' = [io EXCEPT !.game = IF legacy_loop_condition(body, walls, board_size)
                                 THEN "ts_if" ELSE "finish"]
    /\ UNCHANGED keys
    /\ EngineFieldsUnchanged
    /\ LegacyFrame

(* Snake.take_step: if self.velocity_queue. *)
GameTakeStepIf ==
    /\ pc = "legacy"
    /\ io.game = "ts_if"
    /\ io' = [io EXCEPT !.game = IF velocity_queue # <<>> THEN "ts_pop"
                                                          ELSE "ts_move"]
    /\ UNCHANGED keys
    /\ EngineFieldsUnchanged
    /\ LegacyFrame

(* Snake.take_step: popleft, then the new velocity if it is valid. *)
GameTakeStepPop ==
    /\ pc = "legacy"
    /\ io.game = "ts_pop"
    /\ LET new_velocity == velocity_queue[1]
       IN  /\ velocity_queue' = Tail(velocity_queue)
           /\ velocity' = IF valid_velocity(new_velocity, velocity)
                          THEN new_velocity ELSE velocity
    /\ io' = [io EXCEPT !.game = "ts_move"]
    /\ UNCHANGED <<apple, body, keys>>
    /\ LegacyFrame

(* Snake.take_step: the new head is appended and the tail removed. *)
GameTakeStepMove ==
    /\ pc = "legacy"
    /\ io.game = "ts_move"
    /\ body' = Tail(Append(body, Add(HeadOf(body), velocity)))
    /\ io' = [io EXCEPT !.game = "eat"]
    /\ UNCHANGED <<apple, velocity, velocity_queue, keys>>
    /\ LegacyFrame

(* SnakeGame.run: eat, and generate_new_apple if it ate; random.choice     *)
(* raises IndexError when no position is free.                             *)
GameEat ==
    /\ pc = "legacy"
    /\ io.game = "eat"
    /\ LET r == eat(Cur, apple)
       IN  IF r.ate
           THEN \E g \in generate_new_apple(r.snake.body, walls, board_size) :
                   /\ body' = r.snake.body
                   /\ apple' = IF g.exc = "none" THEN g.value ELSE apple
                   /\ io' = [io EXCEPT !.game = IF g.exc = "none" THEN "cond"
                                                                  ELSE "raised"]
           ELSE /\ io' = [io EXCEPT !.game = "cond"]
                /\ UNCHANGED <<apple, body>>
    /\ UNCHANGED <<velocity, velocity_queue, keys>>
    /\ LegacyFrame

(* SnakeGame.run: self.running = False. *)
GameFinish ==
    /\ pc = "legacy"
    /\ io.game = "finish"
    /\ io' = [io EXCEPT !.game = "done", !.running = FALSE]
    /\ UNCHANGED keys
    /\ EngineFieldsUnchanged
    /\ LegacyFrame

(* GameIO._capture_inputs: self._capturing_inputs = True. *)
LegacyCaptureInit ==
    /\ pc = "legacy"
    /\ io.input = "init"
    /\ io' = [io EXCEPT !.input = "while", !.capturing = TRUE]
    /\ UNCHANGED keys
    /\ EngineFieldsUnchanged
    /\ LegacyFrame

(* GameIO._capture_inputs: while self._capturing_inputs. *)
LegacyCaptureWhile ==
    /\ pc = "legacy"
    /\ io.input = "while"
    /\ io' = [io EXCEPT !.input = IF io.capturing = TRUE THEN "acquire"
                                                         ELSE "done"]
    /\ UNCHANGED keys
    /\ EngineFieldsUnchanged
    /\ LegacyFrame

(* GameIO._capture_inputs: with self._lock. *)
LegacyCaptureAcquire ==
    /\ pc = "legacy"
    /\ io.input = "acquire"
    /\ io.lock = "free"
    /\ io' = [io EXCEPT !.input = "getch", !.lock = "input"]
    /\ UNCHANGED keys
    /\ EngineFieldsUnchanged
    /\ LegacyFrame

(* GameIO._capture_inputs: getch without waiting, the release of the lock, *)
(* and the comparison of the last three bytes with the arrow keys.         *)
LegacyCaptureGetch ==
    /\ pc = "legacy"
    /\ io.input = "getch"
    /\ \/ /\ io' = [io EXCEPT !.input = "while", !.lock = "free"]
          /\ UNCHANGED keys
       \/ /\ keys < MaxKeys
          /\ \E v \in UnitVelocities :
                io' = [io EXCEPT !.input = "queue", !.lock = "free", !.key = v]
          /\ keys' = keys + 1
    /\ EngineFieldsUnchanged
    /\ LegacyFrame

(* SnakeGame.queue_snake_velocity. *)
LegacyQueue ==
    /\ pc = "legacy"
    /\ io.input = "queue"
    /\ velocity_queue' = Append(velocity_queue, io.key)
    /\ io' = [io EXCEPT !.input = "while", !.key = None]
    /\ UNCHANGED <<apple, body, velocity, keys>>
    /\ LegacyFrame

LegacyNext ==
    \/ StartGame
    \/ StartInput
    \/ ViewWhile
    \/ ViewAcquire
    \/ View
    \/ End
    \/ JoinInput
    \/ JoinGame
    \/ GameRun
    \/ GameCondition
    \/ GameTakeStepIf
    \/ GameTakeStepPop
    \/ GameTakeStepMove
    \/ GameEat
    \/ GameFinish
    \/ LegacyCaptureInit
    \/ LegacyCaptureWhile
    \/ LegacyCaptureAcquire
    \/ LegacyCaptureGetch
    \/ LegacyQueue

LegacySpec == LegacyInit /\ [][LegacyNext]_vars

----------------------------------------------------------------------------
(* KeySpec: the same object on one board, with a driver that sends any    *)
(* number of directions, so that the pending queue fills up.              *)

KeyInit ==
    /\ board_size = <<MaxBoardX, MaxBoardY>>
    /\ walls = {}
    /\ apple \in BoardCells(board_size)
    /\ body = Snake_init.body
    /\ velocity = Snake_init.velocity
    /\ velocity_queue = Snake_init.velocity_queue
    /\ pc = "idle"
    /\ gen = "none"
    /\ step_number = 0
    /\ keys = 0
    /\ made = NothingMade
    /\ twin = NoTwin
    /\ args = <<>>
    /\ io = NoIO
    /\ last = NoOp

KeyQueueDirection ==
    /\ pc = "idle"
    /\ \E direction \in KeyNames : Queue(direction)
    /\ keys' = keys
    /\ UNCHANGED twin

KeyNext == KeyQueueDirection \/ Run \/ RunStepwise \/ Next_item

KeySpec == KeyInit /\ [][KeyNext]_vars

----------------------------------------------------------------------------
(* Properties. *)

Neg(v) == <<0 - v[1], 0 - v[2]>>

FreeCells(bd, ws, bs) == BoardCells(bs) \ (ws \cup Range(bd))

Terminated(b) == hit(b, walls) \/ bite(b) \/ is_escaped(b, board_size)

IsTick == last.op \in {"run", "next"}

(* C1: whenever the engine sets the food, at construction and after every *)
(* successful eat, the food is a board cell outside the walls and outside *)
(* the body of that moment. Stated for construction: once __init__ has    *)
(* run on a board with a free cell and walls on cells of the board away   *)
(* from the snake, the engine holds such a food.                          *)
C1_FoodIsFreeCellWhenSet ==
    (/\ last.op = "__init__"
     /\ walls \subseteq BoardCells(board_size) \ Range(body)
     /\ FreeCells(body, walls, board_size) # {}) =>
        /\ last.placed
        /\ apple \in FreeCells(body, walls, board_size)

(* C2: at a food placement with max_index = width*height - |walls| -      *)
(* |body| - 1, the indices 0..max_index map one-to-one onto the free      *)
(* cells, index i giving the i-th element of the materialised list.       *)
(* Stated for the placement of __init__ with walls on cells of the board  *)
(* away from the snake.                                                    *)
C2_PlacementIsIndexIntoValidList ==
    last.op = "__init__" =>
        LET vp == valid_positions(body, walls, board_size)
            max_index == board_size[1] * board_size[2] - Cardinality(walls)
                         - Len(body) - 1
        IN  (vp # <<>> /\ walls \subseteq BoardCells(board_size) \ Range(body)) =>
               /\ Len(vp) = max_index + 1
               /\ get_new_apple(body, walls, board_size)
                     = {Returned(vp[i + 1]) : i \in 0..max_index}
               /\ last.exc = "none"
               /\ apple \in Range(vp)

(* C3: a food placement called when no board cell is free of body and     *)
(* walls ends in an error; it returns no position, no None and no         *)
(* default.                                                                *)
C3_NoFreeCellIsAnError ==
    (last.op = "__init__" /\ FreeCells(body, walls, board_size) = {}) =>
        /\ last.exc # "none"
        /\ pc = "raised"
        /\ apple = Unset

C3_Witness ==
    /\ last.op = "__init__"
    /\ FreeCells(body, walls, board_size) = {}
    /\ board_size[1] > 0
    /\ board_size[2] > 0
    /\ last.exc # "none"

(* C4: a tick tests the termination predicates on the current body first; *)
(* if one holds nothing changes; otherwise advance runs, then eat, then,  *)
(* when eat succeeded, the food placement.                                 *)
C4_TickOrder ==
    IsTick =>
        IF Terminated(last.pre.body)
        THEN /\ last.ended
             /\ Cur = last.pre
             /\ apple = last.pre_apple
        ELSE /\ ~last.ended
             /\ Len(last.mid.body) = Len(last.pre.body)
             /\ HeadOf(last.mid.body)
                   = Add(HeadOf(last.pre.body), last.mid.velocity)
             /\ IF HeadOf(last.mid.body) = last.pre_apple
                THEN /\ Len(body) = Len(last.mid.body) + 1
                     /\ last.placed
                     /\ last.exc = "none"
                ELSE /\ Cur = last.mid
                     /\ ~last.placed
                     /\ apple = last.pre_apple

(* C5: advance with a non-reversing unit direction d at the front of the  *)
(* queue sets the direction to d, puts the new head at old head + d,      *)
(* drops the tail and keeps the length; with an empty queue the same with *)
(* d the current direction.                                                *)
C5_AdvanceMovesHeadByResolvedDirection ==
    last.op = "take_step" =>
        LET q == last.pre.velocity_queue
            n == Len(last.pre.body)
            Moved(d) ==
                /\ velocity = d
                /\ Len(body) = n
                /\ HeadOf(body) = Add(HeadOf(last.pre.body), d)
                /\ \A i \in 1..(n - 1) : body[i] = last.pre.body[i + 1]
        IN  /\ (q = <<>>) => Moved(last.pre.velocity)
            /\ (/\ q # <<>>
                /\ q[1] \in UnitVelocities
                /\ q[1] # Neg(last.pre.velocity)) => Moved(q[1])

C5_Witness ==
    /\ last.op = "take_step"
    /\ last.pre.velocity_queue # <<>>
    /\ last.pre.velocity_queue[1] \in UnitVelocities
    /\ last.pre.velocity_queue[1] \notin {last.pre.velocity, Neg(last.pre.velocity)}
    /\ Len(body) >= 2
    /\ velocity = last.pre.velocity_queue[1]

(* C6: advance with the exact opposite of the current direction at the    *)
(* front of the queue keeps the direction, moves the head one step in it  *)
(* and removes that entry; each of the other three unit directions is     *)
(* taken.                                                                  *)
C6_ReversalIsDiscarded ==
    (last.op = "take_step" /\ last.pre.velocity_queue # <<>>) =>
        LET front == last.pre.velocity_queue[1]
        IN  /\ velocity_queue = Tail(last.pre.velocity_queue)
            /\ (front = Neg(last.pre.velocity)) =>
                  /\ velocity = last.pre.velocity
                  /\ HeadOf(body) = Add(HeadOf(last.pre.body), last.pre.velocity)
                  /\ last.exc = "none"
            /\ (front \in UnitVelocities \ {Neg(last.pre.velocity)}) =>
                  velocity = front

C6_Witness ==
    /\ last.op = "take_step"
    /\ last.pre.velocity_queue # <<>>
    /\ last.pre.velocity_queue[1] = Neg(last.pre.velocity)
    /\ last.pre.velocity # Right
    /\ velocity = last.pre.velocity

(* C7: queue_direction(d) appends d and returns success iff the queue     *)
(* holds fewer than 5 entries, else returns failure and leaves the queue; *)
(* the queue never holds more than 5 entries, and the 6th of 6 enqueues   *)
(* without a tick in between fails with 5 entries queued.                  *)
C7_QueueHoldsAtMostFive ==
    /\ Len(velocity_queue) <= 5
    /\ last.op = "queue" =>
          IF Len(last.pre.velocity_queue) < 5
          THEN /\ last.ret = "True"
               /\ velocity_queue = Append(last.pre.velocity_queue, last.vel)
          ELSE /\ last.ret = "False"
               /\ velocity_queue = last.pre.velocity_queue

C7_Witness ==
    /\ last.op = "queue"
    /\ last.ret = "False"
    /\ Len(velocity_queue) = 5
    /\ body = <<<<0, 0>>>>
    /\ gen = "none"

(* C8: eat(p) succeeds iff the head equals p; on success it appends one   *)
(* head at old head + direction and removes nothing; on failure body,     *)
(* direction and queue are unchanged.                                      *)
C8_EatGrowsIffHeadOnFood ==
    last.op = "eat" =>
        /\ (last.ret = "True") <=> (HeadOf(last.pre.body) = last.pos)
        /\ last.ret \in {"True", "False"}
        /\ (last.ret = "True") =>
              /\ body = Append(last.pre.body,
                               Add(HeadOf(last.pre.body), last.pre.velocity))
              /\ velocity = last.pre.velocity
              /\ velocity_queue = last.pre.velocity_queue
        /\ (last.ret = "False") => Cur = last.pre

C8_Witness ==
    /\ last.op = "eat"
    /\ last.ret = "True"
    /\ Len(last.pre.body) >= 2
    /\ last.pre.velocity_queue # <<>>

(* C9: across a tick of a running game the body grows by exactly one if   *)
(* the head reached the food on that tick and keeps its length otherwise; *)
(* no operation ever shortens the body.                                    *)
C9_LengthGrowsByOneOnFood ==
    /\ last.op # "none" => Len(body) >= Len(last.pre.body)
    /\ (IsTick /\ ~Terminated(last.pre.body)) =>
          Len(body) = Len(last.pre.body)
                      + (IF Add(HeadOf(last.pre.body), velocity) = last.pre_apple
                         THEN 1 ELSE 0)

C9_Witness ==
    /\ IsTick
    /\ ~Terminated(last.pre.body)
    /\ HeadOf(last.mid.body) = last.pre_apple
    /\ Len(body) = Len(last.pre.body) + 1

(* C10: once a termination predicate holds, no tick, run() call, stepwise *)
(* iteration or enqueue changes body, direction or food, the predicate    *)
(* keeps holding, and a stepwise iteration started then yields nothing.   *)
C10_EndedIsPermanent ==
    (last.op # "none" /\ Terminated(last.pre.body)) =>
        /\ body = last.pre.body
        /\ velocity = last.pre.velocity
        /\ apple = last.pre_apple
        /\ Terminated(body)
        /\ IsTick => (last.ended /\ last.item = 0 /\ last.exc = "none")
        /\ last.op = "next" => (last.ret = "StopIteration" /\ gen = "finished")
        /\ last.op = "run" => pc = "idle"

C10_Witness ==
    /\ last.op = "next"
    /\ last.ret = "StopIteration"
    /\ step_number = 0
    /\ Len(body) >= 2
    /\ is_escaped(body, board_size)

(* C11: the step-wise sequence takes one tick per item it produces, its    *)
(* k-th item is the integer k, a next() made once a termination predicate  *)
(* holds stops the sequence with no item and no tick, and so the number of *)
(* items produced equals the number of ticks in which the snake advanced.  *)
C11_ItemsCountAdvancingTicks ==
    /\ made.items = made.ticks
    /\ last.op = "next" =>
          IF Terminated(last.pre.body)
          THEN last.ret = "StopIteration" /\ Cur = last.pre
          ELSE last.ret = "item" /\ last.item = made.items

(* C12: exhausting run_stepwise() on one object and calling run() on an   *)
(* object in the same state, with the same directions sent before the     *)
(* same ticks, visit the same (body, direction, queue, food) after the    *)
(* same number of ticks, and both stop after the same number of ticks, in *)
(* the same state and both with or both without an exception.             *)
C12_RunAndStepwiseAgree ==
    twin.pc # "none" =>
        /\ made.ticks = twin.ticks => (Cur = twin.snake /\ apple = twin.apple)
        /\ (gen = "finished" /\ twin.pc \in {"returned", "raised"}) =>
              /\ made.ticks = twin.ticks
              /\ (twin.pc = "raised") <=> (last.exc # "none")

C12_Witness ==
    /\ gen = "finished"
    /\ twin.pc = "returned"
    /\ twin.ticks >= 2
    /\ velocity # Right
    /\ Cur = twin.snake

(* C14: right after a construction with positive board dimensions, walls   *)
(* away from (0,0) and a free cell, the game is running: the body is the   *)
(* single segment (0,0), the direction is (1,0), the pending queue is      *)
(* empty and the food is on a free cell.                                    *)
C14_ConstructedGameIsRunning ==
    (/\ last.op = "__init__"
     /\ board_size[1] > 0
     /\ board_size[2] > 0
     /\ <<0, 0>> \notin walls
     /\ FreeCells(last.pre.body, walls, board_size) # {}) =>
        /\ pc = "idle"
        /\ last.exc = "none"
        /\ body = <<<<0, 0>>>>
        /\ velocity = Right
        /\ velocity_queue = <<>>
        /\ loop_condition(body, walls, board_size)
        /\ apple \in FreeCells(body, walls, board_size)

(* C19: a construction with a width or a height that is zero or negative   *)
(* ends in an error; it produces no game, so none whose food is absent or  *)
(* outside the board.                                                       *)
C19_NonPositiveBoardIsAnError ==
    (last.op = "__init__" /\ (board_size[1] <= 0 \/ board_size[2] <= 0)) =>
        /\ last.exc # "none"
        /\ ~last.placed
        /\ pc = "raised"
        /\ apple \notin {None} \cup (Coords \X Coords)

C19_Witness ==
    /\ last.op = "__init__"
    /\ board_size[1] < 0
    /\ board_size[2] < 0
    /\ last.exc = "TypeError"
    /\ pc = "raised"

(* C20: a wall on the initial snake position (0,0) does not make the       *)
(* construction fail; the game it gives is over at once, its first         *)
(* termination test finding the wall under the one-segment body. Stated   *)
(* for boards that keep a free cell for the food.                           *)
C20_WallUnderSnakeIsAccepted ==
    (/\ last.op = "__init__"
     /\ board_size[1] > 0
     /\ board_size[2] > 0
     /\ <<0, 0>> \in walls
     /\ FreeCells(body, walls, board_size) # {}) =>
        /\ last.exc = "none"
        /\ pc = "idle"
        /\ body = <<<<0, 0>>>>
        /\ hit(body, walls)
        /\ ~loop_condition(body, walls, board_size)

Adjacent(p, q) == <<q[1] - p[1], q[2] - p[2]>> \in UnitVelocities

(* C15: in every reachable state the body has at least one segment and    *)
(* each segment differs from the next by one of the four unit vectors,     *)
(* right after a growth by eat as well.                                     *)
C15_BodyIsConnected ==
    /\ Len(body) >= 1
    /\ \A i \in 1..(Len(body) - 1) : Adjacent(body[i], body[i + 1])

C15_Witness ==
    /\ last.op = "eat"
    /\ last.ret = "True"
    /\ Len(body) = 3
    /\ velocity # Right
    /\ Adjacent(body[2], body[3])

(* C16: on the 5 x 5 board without walls, with no direction sent, run()    *)
(* comes to its end with the game ended by escape: the head is beyond the  *)
(* right edge (x >= 5, y = 0), and neither a wall nor the body was hit.    *)
C16_RunEscapesOnTheRight ==
    (/\ board_size = <<5, 5>>
     /\ gen = "none"
     /\ last.op = "run"
     /\ pc = "idle") =>
        /\ last.exc = "none"
        /\ last.ended
        /\ is_escaped(body, board_size)
        /\ HeadOf(body)[1] >= 5
        /\ HeadOf(body)[2] = 0
        /\ ~hit(body, walls)
        /\ ~bite(body)

(* C17: on the 3 x 3 board with one wall at (1, 0) and no direction sent,  *)
(* the tick from the initial body puts the head on (1, 0), and the         *)
(* termination test of the next tick ends the game with hit true and with  *)
(* bite and is_escaped false.                                               *)
C17_WallAheadEndsTheGame ==
    (board_size = <<3, 3>> /\ IsTick) =>
        /\ last.pre.body = <<<<0, 0>>>> =>
              /\ ~last.ended
              /\ last.exc = "none"
              /\ body = <<<<1, 0>>>>
        /\ last.pre.body # <<<<0, 0>>>> =>
              /\ last.pre.body = <<<<1, 0>>>>
              /\ last.ended
              /\ body = last.pre.body
              /\ hit(body, walls)
              /\ ~bite(body)
              /\ ~is_escaped(body, board_size)

C17_Witness ==
    /\ board_size = <<3, 3>>
    /\ walls = {<<1, 0>>}
    /\ last.op = "next"
    /\ last.ret = "StopIteration"
    /\ made.items = 1
    /\ made.ticks = 1
    /\ HeadOf(body) = <<1, 0>>

Reasons == {"wall-collision", "self-collision", "escaped"}

ReasonHolds(r, b) ==
    CASE r = "wall-collision" -> Range(b) \cap walls # {}
      [] r = "self-collision" -> Cardinality(Range(b)) # Len(b)
      [] r = "escaped" -> ~(Range(b) \subseteq BoardCells(board_size))
      [] OTHER -> FALSE

(* C18: when run() or the step-wise sequence finds the game ended, the     *)
(* engine hands its caller one of the three termination reasons, and the   *)
(* predicate of that reason holds on the final body.                        *)
C18_EndedReportsItsReason ==
    (IsTick /\ last.ended) =>
        /\ last.ret \in Reasons
        /\ ReasonHolds(last.ret, body)

(* C18, amended: when run() or the step-wise sequence finds the game ended, *)
(* the final body overlaps a wall, repeats a cell or has a segment outside *)
(* the board, but the caller is handed no reason: run() returns None and    *)
(* the sequence raises StopIteration.                                       *)
C18_EndedHoldsAReasonUnreported ==
    (IsTick /\ last.ended) =>
        /\ \E r \in Reasons : ReasonHolds(r, body)
        /\ last.exc = "none"
        /\ last.ret = (IF last.op = "run" THEN "None" ELSE "StopIteration")

(* A game ended with two of the reasons holding at once. *)
C18_Witness ==
    /\ last.op = "run"
    /\ last.ended
    /\ last.ret = "None"
    /\ ReasonHolds("wall-collision", body)
    /\ ReasonHolds("escaped", body)
    /\ ~ReasonHolds("self-collision", body)

(* C22: pending directions are consumed first in, first out, one per tick: *)
(* a successful enqueue appends at the end, a refused one changes nothing, *)
(* and a tick that advances removes exactly the oldest entry, which is the *)
(* one it resolves the direction from, and leaves the others in order.     *)
C22_QueueIsFifoOnePerTick ==
    /\ (IsTick /\ ~last.ended) =>
          /\ last.mid.velocity_queue =
                (IF last.pre.velocity_queue # <<>>
                 THEN Tail(last.pre.velocity_queue) ELSE <<>>)
          /\ velocity_queue = last.mid.velocity_queue
          /\ last.pre.velocity_queue # <<>> =>
                velocity = (IF last.pre.velocity_queue[1] = Neg(last.pre.velocity)
                            THEN last.pre.velocity
                            ELSE last.pre.velocity_queue[1])
    /\ (last.op = "queue" /\ last.ret = "True") =>
          velocity_queue = Append(last.pre.velocity_queue, last.vel)
    /\ (last.op = "queue" /\ last.ret = "False") =>
          velocity_queue = last.pre.velocity_queue

C22_Witness ==
    /\ IsTick
    /\ ~last.ended
    /\ Len(last.pre.velocity_queue) = 2
    /\ last.pre.velocity_queue[1] # last.pre.velocity_queue[2]
    /\ velocity = last.pre.velocity_queue[1]
    /\ velocity # last.pre.velocity
    /\ velocity_queue = <<last.pre.velocity_queue[2]>>

(* C23: the food changes only in a tick whose advance put the head on the  *)
(* food; an enqueue, a tick that does not reach the food and a tick that   *)
(* finds the game ended leave it alone; and an enqueue changes nothing but *)
(* the pending queue: body, direction, food, walls and board stay.         *)
C23_FoodAndEnqueueFrame ==
    [][/\ apple' # apple =>
             /\ last'.op \in {"run", "next"}
             /\ ~last'.ended
             /\ HeadOf(last'.mid.body) = apple
       /\ last'.op = "queue" =>
             /\ body' = body
             /\ velocity' = velocity
             /\ apple' = apple
             /\ walls' = walls
             /\ board_size' = board_size
             /\ SubSeq(velocity_queue', 1, Len(velocity_queue)) = velocity_queue
       /\ (last'.op \in {"run", "next"} /\ last'.ended) =>
             <<body', velocity', velocity_queue', apple'>> =
             <<body, velocity, velocity_queue, apple>>]_vars

C23_Witness ==
    /\ last.op = "queue"
    /\ last.ret = "True"
    /\ Len(last.pre.body) >= 2
    /\ body = last.pre.body
    /\ velocity = last.pre.velocity
    /\ apple = last.pre_apple
    /\ velocity_queue # last.pre.velocity_queue

SomeSegmentOutside(b, bs) ==
    \E i \in 1..Len(b) :
        \/ b[i][1] < 0
        \/ b[i][2] < 0
        \/ b[i][1] >= bs[1]
        \/ b[i][2] >= bs[2]

C25_EveryPairBecomesAWall ==
    (pc = "walls" /\ Len(args) % 2 = 0) =>
        walls = {<<args[2 * j - 1], args[2 * j]>> : j \in 1..(Len(args) \div 2)}

Neck(b) == b[Len(b) - 1]

(* C26: with a body of two or more segments the direction is the step from *)
(* the neck to the head, and no advance, whatever is queued and also right *)
(* after a growth by eat, puts the new head on the neck of before.          *)
C26_HeadNeverStepsOnNeck ==
    /\ Len(body) >= 2 => velocity = Add(HeadOf(body), Neg(Neck(body)))
    /\ (/\ last.op \in {"take_step", "run", "next"}
        /\ ~last.ended
        /\ Len(last.pre.body) >= 2) =>
          HeadOf(last.mid.body) # Neck(last.pre.body)

C26_Witness ==
    /\ last.op = "take_step"
    /\ Len(last.pre.body) >= 2
    /\ last.pre.velocity_queue # <<>>
    /\ last.pre.velocity_queue[1] = Neg(last.pre.velocity)
    /\ HeadOf(body) = Add(HeadOf(last.pre.body), last.pre.velocity)
    /\ HeadOf(body) # Neck(last.pre.body)

(* The number of ticks in which the snake advances when run() is called    *)
(* on engine state s with food at food and nobody queues a direction,      *)
(* counted up to fuel ticks; a tick that raises is the last one. A result  *)
(* above fuel says that the game is not over after fuel ticks.             *)
RECURSIVE TicksUntilEnd(_, _, _)
TicksUntilEnd(s, food, fuel) ==
    IF ~loop_condition(s.body, walls, board_size)
    THEN 0
    ELSE IF fuel = 0
         THEN 1
         ELSE LET t == CHOOSE t \in SnakeGame_take_step(s, food, walls, board_size) : TRUE
              IN  IF t.exc # "none"
                  THEN 1
                  ELSE 1 + TicksUntilEnd(t.snake, t.apple, fuel - 1)

TickBound == Len(velocity_queue) + SetMax({board_size[1], board_size[2]})

(* C28: from every reachable state of a game that is not over, with no     *)
(* further direction queued, the ticks end the game or raise in placing    *)
(* the food after at most (pending entries) + max(width, height) ticks.    *)
C28_EndsWithinQueuePlusBoard ==
    (pc = "idle" /\ loop_condition(body, walls, board_size)) =>
        TicksUntilEnd(Cur, apple, TickBound) <= TickBound

C28_Witness ==
    /\ pc = "idle"
    /\ loop_condition(body, walls, board_size)
    /\ Len(velocity_queue) = QueueCap
    /\ Len(body) >= 2
    /\ TicksUntilEnd(Cur, apple, TickBound) >= 3
    /\ TicksUntilEnd(Cur, apple, TickBound) <= TickBound

(* C27: with the input thread and the simulation thread interleaved at     *)
(* the single operations on the pending queue and no lock, the queue never *)
(* holds more than 5 entries, and the directions whose enqueue returned    *)
(* True are exactly, in order and once each, the directions already        *)
(* dequeued followed by the directions still pending.                      *)
C27_UnlockedQueueKeepsCapAndEntries ==
    pc = "threads" =>
        /\ Len(velocity_queue) <= 5
        /\ io.sent = io.taken \o velocity_queue

C27_Witness ==
    /\ pc = "threads"
    /\ io.input = "q_append"
    /\ io.seen
    /\ io.main = "ts_pop"
    /\ Len(velocity_queue) = 4
    /\ Len(io.taken) >= 1
    /\ Len(io.sent) = 5

(* The main thread is inside a tick of the engine. *)
InTick == io.main \in {"ts_if", "ts_pop", "ts_move", "eat"}

(* The input thread is inside queue_snake_movement_direction. *)
InEnqueue == io.input \in {"q_len", "q_append"}

(* C21: in the threaded driver a tick never overlaps an enqueue of a       *)
(* pending direction nor a render's read of the walls, the body and the    *)
(* food: while the main thread is inside a tick the input thread is not    *)
(* inside the enqueue, and the render reads only while it holds the lock.  *)
C21_TickExcludesEnqueueAndRender ==
    pc = "io" =>
        /\ ~(InTick /\ InEnqueue)
        /\ (io.main = "draw" => io.lock = "main")

(* C29: GameIO returns once the game has finished: when the main thread    *)
(* has run _cleanup and waits in input_thread.join(), the input thread's   *)
(* loop eventually exits and the join completes.                           *)
C29_JoinCompletes ==
    (pc = "io" /\ io.main = "join") ~> (io.main = "score")

(* The join does complete when the input thread had assigned True before  *)
(* _cleanup assigned False.                                                *)
JoinCompletesWhenFlagWasRaisedFirst ==
    (pc = "io" /\ io.main = "join" /\ io.capturing = FALSE /\ io.input # "init")
        ~> (io.main = "score")

(* The legacy render loop has been left. *)
RenderLoopLeft == io.main \in {"end", "join_input", "join_game", "returned"}

(* C30: in the legacy threaded driver the render loop never exits before   *)
(* the game has ended: once GameIO._run has left its while loop, the loop  *)
(* condition of SnakeGame.run is false (the snake hit a wall, bit itself   *)
(* or escaped) and the game thread has left its loop.                      *)
C30_RenderLoopOutlivesGame ==
    (pc = "legacy" /\ RenderLoopLeft) =>
        /\ ~legacy_loop_condition(body, walls, board_size)
        /\ io.game \in {"finish", "done"}

====
